---- MODULE Spec2Model ----
(***************************************************************************)
(* Freelancer Manager API: five record kinds (client, project, timelog,    *)
(* invoice, payment), one create and one list endpoint per kind, and the   *)
(* metrics endpoint, over a document store.                                *)
(*                                                                         *)
(* JSON values: null is JNull, a present value v is J(v).  A request body  *)
(* is a record holding the fields the caller sent.  A calendar-date string *)
(* "y-m-d" is the triple <<y, m, d>>.  Numbers are integers.               *)
(***************************************************************************)
EXTENDS Integers, Sequences, FiniteSets, TLC

VARIABLES db, next_oid, req, resp, created, mpc, m, mhist

vars == <<db, next_oid, req, resp, created, mpc, m, mhist>>

\* Largest number of records the store holds in a run.
MaxDocs == 2

Kinds == {"client", "project", "timelog", "invoice", "payment"}

JNull == <<>>
J(v) == <<v>>

\* Python truthiness of an Optional[str] query parameter: None and "" are falsy.
Truthy(q) == q # JNull /\ q # J("")

\* str(ObjectId): the textual form of a store identifier.
str_oid(oid) == ToString(oid)

(***************************************************************************)
(* Request DTOs of main.py: required fields and the defaults of the        *)
(* optional ones.  They declare types only, no range, enum or date checks. *)
(***************************************************************************)
ClientCreate ==
    [required |-> {"name"},
     defaults |-> [email |-> JNull, phone |-> JNull, notes |-> JNull]]

ProjectCreate ==
    [required |-> {"name"},
     defaults |-> [client_id |-> JNull, hourly_rate |-> JNull,
                   status |-> J("active"), notes |-> JNull]]

TimeLogCreate ==
    [required |-> {"project_id", "date", "hours"},
     defaults |-> [client_id |-> JNull, description |-> JNull, hourly_rate |-> JNull]]

InvoiceCreate ==
    [required |-> {"client_id", "amount"},
     defaults |-> [project_id |-> JNull, number |-> JNull, due_date |-> JNull,
                   status |-> J("draft"), notes |-> JNull]]

PaymentCreate ==
    [required |-> {"amount", "date"},
     defaults |-> [invoice_id |-> JNull, client_id |-> JNull, method |-> JNull,
                   notes |-> JNull]]

DTO(kind) ==
    CASE kind = "client" -> ClientCreate
      [] kind = "project" -> ProjectCreate
      [] kind = "timelog" -> TimeLogCreate
      [] kind = "invoice" -> InvoiceCreate
      [] kind = "payment" -> PaymentCreate

FieldsOf(dto) == dto.required \cup DOMAIN dto.defaults

\* Request-shape validation of a DTO: every required (non-Optional) field is
\* present and not null.
Validates(dto, body) ==
    \A f \in dto.required : f \in DOMAIN body /\ body[f] # JNull

\* BaseModel.model_dump(): every declared field, the omitted ones at their default.
model_dump(dto, body) ==
    [f \in FieldsOf(dto) |-> IF f \in DOMAIN body THEN body[f] ELSE dto.defaults[f]]

(***************************************************************************)
(* schemas.py: the collection schemas, with their constraints.             *)
(***************************************************************************)
IsLeap(y) == (y % 4 = 0 /\ y % 100 # 0) \/ y % 400 = 0

DaysIn(y, mo) ==
    IF mo = 2 THEN (IF IsLeap(y) THEN 29 ELSE 28)
    ELSE IF mo \in {4, 6, 9, 11} THEN 30 ELSE 31

\* datetime.date: a valid calendar date.
IsCalendarDate(d) ==
    /\ d[1] >= 1 /\ d[1] <= 9999
    /\ d[2] >= 1 /\ d[2] <= 12
    /\ d[3] >= 1 /\ d[3] <= DaysIn(d[1], d[2])

ProjectStatuses == {"planned", "active", "paused", "completed"}
InvoiceStatuses == {"draft", "sent", "paid", "overdue"}

Has(rec, f) == f \in DOMAIN rec /\ rec[f] # JNull

\* Field(ge=0) / Field(gt=0) constraints of the schema of `kind`.
RangeOk(kind, rec) ==
    /\ (kind = "project" /\ Has(rec, "hourly_rate")) => rec.hourly_rate[1] >= 0
    /\ (kind = "timelog" /\ Has(rec, "hourly_rate")) => rec.hourly_rate[1] >= 0
    /\ (kind = "timelog" /\ Has(rec, "hours")) => rec.hours[1] > 0
    /\ (kind = "invoice" /\ Has(rec, "amount")) => rec.amount[1] >= 0
    /\ (kind = "payment" /\ Has(rec, "amount")) => rec.amount[1] >= 0

\* Literal[...] status of the Project and Invoice schemas (not Optional).
StatusOk(kind, rec) ==
    /\ (kind = "project" /\ "status" \in DOMAIN rec) =>
           (rec.status # JNull /\ rec.status[1] \in ProjectStatuses)
    /\ (kind = "invoice" /\ "status" \in DOMAIN rec) =>
           (rec.status # JNull /\ rec.status[1] \in InvoiceStatuses)

\* `date`-typed fields of the TimeLog, Payment and Invoice schemas.
DateOk(kind, rec) ==
    /\ (kind \in {"timelog", "payment"} /\ Has(rec, "date")) => IsCalendarDate(rec.date[1])
    /\ (kind = "invoice" /\ Has(rec, "due_date")) => IsCalendarDate(rec.due_date[1])

(***************************************************************************)
(* Request bodies the callers send.                                        *)
(***************************************************************************)
ClientBodies ==
    { [name |-> J("Acme")],
      [name |-> J("Bob"), email |-> J("bob@x.io"), notes |-> JNull],
      [email |-> J("nobody@x.io")] }

ProjectBodies ==
    { [name |-> J("Site"), client_id |-> J("c1"), hourly_rate |-> J(50), status |-> J("planned")],
      [name |-> J("App"), hourly_rate |-> J(-5)],
      [name |-> J("Blog"), client_id |-> J(""), status |-> J("bogus")],
      [name |-> JNull, client_id |-> J("c1")] }

TimeLogBodies ==
    { [project_id |-> J("p1"), client_id |-> J("c1"), date |-> J(<<2024, 2, 29>>), hours |-> J(3)],
      [project_id |-> J("p2"), date |-> J(<<2024, 3, 1>>), hours |-> J(0)],
      [project_id |-> J("p1"), client_id |-> J("c2"), date |-> J(<<2023, 2, 29>>), hours |-> J(2),
       hourly_rate |-> J(-1)],
      [project_id |-> J("p1"), date |-> J(<<2024, 3, 1>>)] }

InvoiceBodies ==
    { [client_id |-> J("c1"), amount |-> J(1000), status |-> J("sent"),
       due_date |-> J(<<2024, 4, 30>>)],
      [client_id |-> J("c1"), amount |-> J(250), status |-> J("cancelled")],
      [client_id |-> J("c2"), amount |-> J(-7), due_date |-> J(<<2024, 4, 31>>)],
      [client_id |-> J("c1"), status |-> J("sent")] }

PaymentBodies ==
    { [amount |-> J(400), date |-> J(<<2024, 5, 2>>), client_id |-> J("c1"), invoice_id |-> J("i1")],
      [amount |-> J(600), date |-> J(<<2024, 13, 1>>), client_id |-> J("c2")],
      [amount |-> J(-400), date |-> J(<<2024, 5, 3>>), invoice_id |-> J("")],
      [date |-> J(<<2024, 5, 2>>), client_id |-> J("c1")] }

(***************************************************************************)
(* The document store (database module): per-kind collections in insertion *)
(* order, identifiers generated by the store.                              *)
(***************************************************************************)
TotalDocs == Len(db.client) + Len(db.project) + Len(db.timelog)
               + Len(db.invoice) + Len(db.payment)

\* insert: the document stored by create_document(collection, data).
inserted_doc(data, oid) ==
    [f \in DOMAIN data \cup {"_id"} |-> IF f = "_id" THEN oid ELSE data[f]]

\* find: get_documents(collection, filter) on a store state.
get_documents(store, kind, filt) ==
    SelectSeq(store[kind],
              LAMBDA d : \A f \in DOMAIN filt : f \in DOMAIN d /\ d[f] = filt[f])

NoFilter == [f \in {} |-> JNull]

\* insert_one: the collection grows by one document carrying a fresh identifier.
create_document(store, collection, data, oid) ==
    [store EXCEPT ![collection] = Append(@, inserted_doc(data, oid))]

EmptyStore == [k \in Kinds |-> <<>>]

\* Locals of get_metrics before its first read.
m_idle == [clients |-> 0, projects |-> 0, timelogs |-> <<>>, invoices |-> <<>>,
           payments |-> <<>>]

\* History of the metrics call in flight or just returned: the store when the
\* call started, each collection as it was read, the store when the call
\* returned, and whether a create completed since the call started.  It is
\* dropped when the next request is served.
mhist_idle == [start |-> EmptyStore, read |-> EmptyStore, ret |-> EmptyStore,
               writes |-> FALSE]

(***************************************************************************)
(* HTTP surface: create endpoints.                                         *)
(***************************************************************************)
\* Mutant: the name quoted instead of the value, return {"id": "doc_id"}.
created_response_quoted(doc_id) == [status |-> 200, body |-> [id |-> "doc_id"]]

\* return {"id": doc_id}
created_response(doc_id) == [status |-> 200, body |-> [id |-> doc_id]]

\* No response sent yet.
pending == [status |-> 0, body |-> "none"]

\* 422 of the request-shape validation; the handler body never runs.
validation_error == [status |-> 422, body |-> "validation error"]

\* POST handler of DTO `kind` writing to `collection`:
\* validate, model_dump, create_document, return the identifier.
Create(kind, collection, body) ==
    /\ req' = [op |-> "create", kind |-> kind, body |-> body]
    /\ IF Validates(DTO(kind), body)
       THEN /\ TotalDocs < MaxDocs
            /\ db' = create_document(db, collection, model_dump(DTO(kind), body), next_oid)
            /\ next_oid' = next_oid + 1
            /\ resp' = created_response(str_oid(next_oid))
            /\ created' = Append(created,
                                 [kind |-> kind, id |-> resp'.body.id, body |-> body])
            /\ mhist' = IF mpc = "idle" THEN mhist_idle ELSE [mhist EXCEPT !.writes = TRUE]
       ELSE /\ resp' = validation_error
            /\ mhist' = IF mpc = "idle" THEN mhist_idle ELSE mhist
            /\ UNCHANGED <<db, next_oid, created>>
    /\ UNCHANGED <<mpc, m>>

create_client == \E body \in ClientBodies : Create("client", "client", body)

create_project == \E body \in ProjectBodies : Create("project", "project", body)

create_timelog == \E body \in TimeLogBodies : Create("timelog", "timelog", body)

\* Mutant: the invoice written to the payment collection.
create_invoice_wrong_collection ==
    \E body \in InvoiceBodies : Create("invoice", "payment", body)

create_invoice == \E body \in InvoiceBodies : Create("invoice", "invoice", body)

create_payment == \E body \in PaymentBodies : Create("payment", "payment", body)

(***************************************************************************)
(* HTTP surface: list endpoints.                                           *)
(***************************************************************************)
\* Query-parameter values: absent (None), empty, or an identifier / status.
IdParams == {JNull, J(""), J("c1")}
ProjectIdParams == {JNull, J(""), J("p1")}
InvoiceIdParams == {JNull, J(""), J("i1")}
StatusParams == {JNull, J(""), J("sent")}

\* Mutant: only client_id reaches the filter, the second parameter is forgotten.
build_filter_client_only(q) ==
    [f \in {g \in DOMAIN q : g = "client_id" /\ Truthy(q[g])} |-> q[f]]

\* filt = {}; if p: filt["p"] = p   (for each query parameter p)
build_filter(q) == [f \in {g \in DOMAIN q : Truthy(q[g])} |-> q[f]]

\* Mutant: i["id"] = str(i["_id"]), the raw identifier is left in the item.
rename_id_keep_raw(items) ==
    [n \in 1..Len(items) |->
        [f \in DOMAIN items[n] \cup {"id"} |->
            IF f = "id" THEN str_oid(items[n]["_id"]) ELSE items[n][f]]]

\* for i in items: i["id"] = str(i.pop("_id"))
rename_id(items) ==
    [n \in 1..Len(items) |->
        [f \in (DOMAIN items[n] \ {"_id"}) \cup {"id"} |->
            IF f = "id" THEN str_oid(items[n]["_id"]) ELSE items[n][f]]]

\* Mutant: the store hands out its own documents, so the renaming loop
\* rewrites the stored records.
List_aliased(kind, q) ==
    /\ req' = [op |-> "list", kind |-> kind, q |-> q]
    /\ resp' = [status |-> 200, body |-> rename_id(get_documents(db, kind, build_filter(q)))]
    /\ db' = [db EXCEPT ![kind] =
                 [n \in 1..Len(@) |->
                     IF \A f \in DOMAIN build_filter(q) : f \in DOMAIN @[n] /\ @[n][f] = q[f]
                     THEN rename_id(<<@[n]>>)[1] ELSE @[n]]]
    /\ mhist' = IF mpc = "idle" THEN mhist_idle ELSE mhist
    /\ UNCHANGED <<next_oid, created, mpc, m>>

\* GET handler of `kind` with query parameters q.
List(kind, q) ==
    /\ req' = [op |-> "list", kind |-> kind, q |-> q]
    /\ resp' = [status |-> 200, body |-> rename_id(get_documents(db, kind, build_filter(q)))]
    /\ mhist' = IF mpc = "idle" THEN mhist_idle ELSE mhist
    /\ UNCHANGED <<db, next_oid, created, mpc, m>>

list_clients == List("client", NoFilter)

list_projects == \E client_id \in IdParams : List("project", [client_id |-> client_id])

list_timelogs ==
    \E project_id \in ProjectIdParams, client_id \in IdParams :
        List("timelog", [project_id |-> project_id, client_id |-> client_id])

list_invoices ==
    \E client_id \in IdParams, status \in StatusParams :
        List("invoice", [client_id |-> client_id, status |-> status])

list_payments ==
    \E client_id \in IdParams, invoice_id \in InvoiceIdParams :
        List("payment", [client_id |-> client_id, invoice_id |-> invoice_id])

(***************************************************************************)
(* HTTP surface: get_metrics.  One store call per step, so that creates of *)
(* other requests interleave between the five reads.                       *)
(***************************************************************************)
\* float(t.get(field, 0))
float_get(t, field) == IF field \in DOMAIN t THEN t[field][1] ELSE 0

RECURSIVE sum_field(_, _)
sum_field(items, field) ==
    IF items = <<>> THEN 0
    ELSE float_get(Head(items), field) + sum_field(Tail(items), field)

\* The request arrives and the handler starts.
metrics_call ==
    /\ mpc = "idle"
    /\ mpc' = "client"
    /\ m' = m_idle
    /\ mhist' = [start |-> db, read |-> EmptyStore, ret |-> EmptyStore, writes |-> FALSE]
    /\ req' = [op |-> "metrics"]
    /\ resp' = pending
    /\ UNCHANGED <<db, next_oid, created>>

MetricsRead(kind, nxt, locals) ==
    /\ mpc = kind
    /\ mpc' = nxt
    /\ m' = locals
    /\ mhist' = [mhist EXCEPT !.read[kind] = db[kind]]
    /\ UNCHANGED <<db, next_oid, req, resp, created>>

\* clients = len(get_documents("client"))
metrics_read_clients ==
    MetricsRead("client", "project",
                [m EXCEPT !.clients = Len(get_documents(db, "client", NoFilter))])

\* projects = len(get_documents("project"))
metrics_read_projects ==
    MetricsRead("project", "timelog",
                [m EXCEPT !.projects = Len(get_documents(db, "project", NoFilter))])

\* timelogs = get_documents("timelog")
metrics_read_timelogs ==
    MetricsRead("timelog", "invoice",
                [m EXCEPT !.timelogs = get_documents(db, "timelog", NoFilter)])

\* invoices = get_documents("invoice")
metrics_read_invoices ==
    MetricsRead("invoice", "payment",
                [m EXCEPT !.invoices = get_documents(db, "invoice", NoFilter)])

\* payments = get_documents("payment")
metrics_read_payments ==
    MetricsRead("payment", "sum",
                [m EXCEPT !.payments = get_documents(db, "payment", NoFilter)])

\* Mutant: outstanding = payment_total - invoice_total.
metrics_response_swapped(locals) ==
    LET total_hours == sum_field(locals.timelogs, "hours")
        invoice_total == sum_field(locals.invoices, "amount")
        payment_total == sum_field(locals.payments, "amount")
        outstanding == payment_total - invoice_total
    IN [clients |-> locals.clients, projects |-> locals.projects,
        total_hours |-> total_hours, invoice_total |-> invoice_total,
        payment_total |-> payment_total, outstanding |-> outstanding]

\* Mutant: the two counts are taken again when the response is built.
metrics_response_recount(locals) ==
    LET total_hours == sum_field(locals.timelogs, "hours")
        invoice_total == sum_field(locals.invoices, "amount")
        payment_total == sum_field(locals.payments, "amount")
        outstanding == invoice_total - payment_total
    IN [clients |-> Len(db.client), projects |-> Len(db.project),
        total_hours |-> total_hours, invoice_total |-> invoice_total,
        payment_total |-> payment_total, outstanding |-> outstanding]

\* The sums, the difference and the response.
metrics_response(locals) ==
    LET total_hours == sum_field(locals.timelogs, "hours")
        invoice_total == sum_field(locals.invoices, "amount")
        payment_total == sum_field(locals.payments, "amount")
        outstanding == invoice_total - payment_total
    IN [clients |-> locals.clients, projects |-> locals.projects,
        total_hours |-> total_hours, invoice_total |-> invoice_total,
        payment_total |-> payment_total, outstanding |-> outstanding]

metrics_return ==
    /\ mpc = "sum"
    /\ mpc' = "idle"
    /\ req' = [op |-> "metrics"]
    /\ resp' = [status |-> 200, body |-> metrics_response(m)]
    /\ m' = m_idle
    /\ mhist' = [mhist EXCEPT !.ret = db]
    /\ UNCHANGED <<db, next_oid, created>>

(***************************************************************************)
(* Specifications.                                                         *)
(***************************************************************************)
Init ==
    /\ db = EmptyStore
    /\ next_oid = 1
    /\ req = [op |-> "none"]
    /\ resp = pending
    /\ created = <<>>
    /\ mpc = "idle"
    /\ m = m_idle
    /\ mhist = mhist_idle

\* Requests served one at a time: a metrics call runs to its response before
\* the next request is served.
Next ==
    \/ (mpc = "idle" /\ create_client)
    \/ (mpc = "idle" /\ create_project)
    \/ (mpc = "idle" /\ create_timelog)
    \/ (mpc = "idle" /\ create_invoice)
    \/ (mpc = "idle" /\ create_payment)
    \/ (mpc = "idle" /\ list_clients)
    \/ (mpc = "idle" /\ list_projects)
    \/ (mpc = "idle" /\ list_timelogs)
    \/ (mpc = "idle" /\ list_invoices)
    \/ (mpc = "idle" /\ list_payments)
    \/ metrics_call
    \/ metrics_read_clients
    \/ metrics_read_projects
    \/ metrics_read_timelogs
    \/ metrics_read_invoices
    \/ metrics_read_payments
    \/ metrics_return

Spec == Init /\ [][Next]_vars

\* Creates of other requests interleave with the steps of a metrics call.
ConcNext ==
    \/ create_client
    \/ create_project
    \/ create_timelog
    \/ create_invoice
    \/ create_payment
    \/ metrics_call
    \/ metrics_read_clients
    \/ metrics_read_projects
    \/ metrics_read_timelogs
    \/ metrics_read_invoices
    \/ metrics_read_payments
    \/ metrics_return

ConcSpec == Init /\ [][ConcNext]_vars

(***************************************************************************)
(* Properties.                                                             *)
(***************************************************************************)
IsPrefix(s, t) == Len(s) <= Len(t) /\ SubSeq(t, 1, Len(s)) = s

Stored(k) == {db[k][i] : i \in 1..Len(db[k])}

AcceptedCreate == req.op = "create" /\ resp.status = 200

MetricsReturned == req.op = "metrics" /\ resp.status = 200

RECURSIVE Total(_, _, _)
Total(coll, field, n) ==
    IF n = 0 THEN 0 ELSE Total(coll, field, n - 1) + coll[n][field][1]

\* C1: a create whose numeric field violates its range constraint
\* (Project.hourly_rate < 0, TimeLog.hourly_rate < 0, TimeLog.hours <= 0,
\* Invoice.amount < 0, Payment.amount < 0) is answered with a validation error,
\* and no stored record violates a range constraint.
C1_RangeViolationRejected ==
    /\ (req.op = "create" /\ ~RangeOk(req.kind, req.body)) => resp.status = 422
    /\ \A k \in Kinds : \A d \in Stored(k) : RangeOk(k, d)

\* C2: a create of an Invoice or Project whose status is outside the allowed
\* set is answered with a validation error; every stored Invoice and Project
\* has a status of its allowed set; a create that omits status stores the
\* default (Invoice draft, Project active).
C2_StatusEnumEnforced ==
    /\ (req.op = "create" /\ ~StatusOk(req.kind, req.body)) => resp.status = 422
    /\ \A k \in {"project", "invoice"} : \A d \in Stored(k) : StatusOk(k, d)
    /\ (AcceptedCreate /\ req.kind \in {"project", "invoice"}
          /\ "status" \notin DOMAIN req.body) =>
           db[req.kind][Len(db[req.kind])].status =
               (IF req.kind = "project" THEN J("active") ELSE J("draft"))

\* C3: a create of a TimeLog, Payment or Invoice whose date field is not a
\* valid calendar date is answered with a validation error, and no stored
\* record carries an invalid date.
C3_InvalidDateRejected ==
    /\ (req.op = "create" /\ ~DateOk(req.kind, req.body)) => resp.status = 422
    /\ \A k \in Kinds : \A d \in Stored(k) : DateOk(k, d)

\* C4: a metrics call with no create since it started returns the number of
\* clients, the number of projects, the sum of TimeLog hours, the sum of
\* Invoice amounts, the sum of Payment amounts, and outstanding = invoice sum
\* minus payment sum, of the store.
C4_MetricsTotals ==
    (MetricsReturned /\ ~mhist.writes) =>
        resp.body =
            [clients |-> Len(db.client),
             projects |-> Len(db.project),
             total_hours |-> Total(db.timelog, "hours", Len(db.timelog)),
             invoice_total |-> Total(db.invoice, "amount", Len(db.invoice)),
             payment_total |-> Total(db.payment, "amount", Len(db.payment)),
             outstanding |-> Total(db.invoice, "amount", Len(db.invoice))
                               - Total(db.payment, "amount", Len(db.payment))]

\* C4 witness: invoices summing to 1000 and payments summing to 400 give
\* outstanding 600.
C4_Witness ==
    /\ MetricsReturned /\ ~mhist.writes
    /\ resp.body.invoice_total = 1000
    /\ resp.body.payment_total = 400
    /\ resp.body.outstanding = 600

\* The records of `kind` whose field equals q[f] for every f in `supplied`.
Matching(kind, q, supplied) ==
    SelectSeq(db[kind], LAMBDA d : \A f \in supplied : d[f] = q[f])

\* C5 as stated: a list returns exactly the records equal to X on every query
\* parameter that was supplied, for every string X, the empty string included.
C5_FilterEveryValue ==
    req.op = "list" =>
        resp.body = rename_id(Matching(req.kind, req.q,
                                       {f \in DOMAIN req.q : req.q[f] # JNull}))

\* C5 amended: a list returns exactly the records equal to X on every query
\* parameter supplied with a non-empty X (the empty array when none match);
\* a parameter supplied as the empty string is ignored like an absent one.
C5_FilterNonEmpty ==
    req.op = "list" =>
        resp.body = rename_id(Matching(req.kind, req.q,
                                       {f \in DOMAIN req.q : req.q[f] \notin {JNull, J("")}}))

\* C5 witness: a filtered list that keeps some records and drops others.
C5_Witness ==
    /\ req.op = "list"
    /\ \E f \in DOMAIN req.q : req.q[f] \notin {JNull, J("")}
    /\ Len(resp.body) >= 1
    /\ Len(resp.body) < Len(db[req.kind])

Unfiltered == req.op = "list" /\ \A f \in DOMAIN req.q : req.q[f] = JNull

\* C6: after a create returned identifier I, an unfiltered list of that kind
\* holds exactly one item with id = I; its supplied fields equal the submitted
\* values, its omitted optional fields are null or the declared default, and
\* it has no _id field.
C6_RoundTrip ==
    Unfiltered =>
        \A n \in 1..Len(created) :
            created[n].kind = req.kind =>
                LET c == created[n]
                    hits == {i \in 1..Len(resp.body) : resp.body[i].id = c.id}
                IN /\ Cardinality(hits) = 1
                   /\ \A i \in hits :
                        /\ "_id" \notin DOMAIN resp.body[i]
                        /\ \A f \in DOMAIN c.body : resp.body[i][f] = c.body[f]
                        /\ \A f \in DOMAIN DTO(c.kind).defaults \ DOMAIN c.body :
                               resp.body[i][f] = DTO(c.kind).defaults[f]

\* C6 witness: the client created with only name = "Acme" is listed.
C6_Witness ==
    /\ Unfiltered
    /\ req.kind = "client"
    /\ \E n \in 1..Len(created) :
          /\ created[n].body = [name |-> J("Acme")]
          /\ \E i \in 1..Len(resp.body) :
                resp.body[i].id = created[n].id /\ resp.body[i].email = JNull

\* Every created record is in its kind's collection, with its identifier and values.
C7_Present ==
    \A n \in 1..Len(created) :
        Cardinality({d \in Stored(created[n].kind) :
                        /\ str_oid(d["_id"]) = created[n].id
                        /\ \A f \in DOMAIN created[n].body : d[f] = created[n].body[f]}) = 1

\* A step never removes or changes a stored record, and a successful create
\* adds one record to the collection of its kind and none elsewhere.
C7_Step ==
    /\ \A k \in Kinds : IsPrefix(db[k], db'[k])
    /\ created' # created =>
          /\ Len(db'[req'.kind]) = Len(db[req'.kind]) + 1
          /\ \A k \in Kinds \ {req'.kind} : db'[k] = db[k]

\* C7: records are never changed or removed, whatever creates, lists and
\* metrics calls follow; each successful create adds exactly one record to
\* exactly one collection.
C7_Immutable == []C7_Present /\ [][C7_Step]_vars

\* C7 witness: two records created, then read back.
C7_Witness ==
    /\ Len(created) >= 2
    /\ req.op \in {"list", "metrics"}
    /\ resp.status = 200

\* C8: a list step and every step of a metrics call leave the five
\* collections unchanged, and a list repeated with the same parameters and no
\* create in between returns the same result.
C8_ReadsDoNotWrite ==
    [][ /\ req'.op \in {"list", "metrics"} => db' = db
        /\ (req.op = "list" /\ req'.op = "list" /\ req'.kind = req.kind /\ req'.q = req.q)
              => resp'.body = resp.body ]_vars

\* C8 witness: a list that returned two records.
C8_Witness == req.op = "list" /\ Len(resp.body) = 2

AllDocs == UNION {Stored(k) : k \in Kinds}

\* C9: no two stored records share an identifier, and no two creates returned
\* the same identifier.
C9_UniqueIds ==
    /\ \A k \in Kinds : \A i, j \in 1..Len(db[k]) :
          i # j => db[k][i]["_id"] # db[k][j]["_id"]
    /\ Cardinality({d["_id"] : d \in AllDocs}) = TotalDocs
    /\ \A i, j \in 1..Len(created) : i # j => created[i].id # created[j].id

\* C9 witness: two creates of the same kind have returned.
C9_Witness == Len(db.client) >= 2 /\ AcceptedCreate

ReadOrder == <<"client", "project", "timelog", "invoice", "payment", "sum">>

\* C10: under interleaved creates the reads happen in the order client,
\* project, timelog, invoice, payment; each returned figure is the figure of
\* its collection as it was when read; every record present when the call
\* started is counted and none created after it returned is; and outstanding
\* is invoice_total - payment_total of the same response.
C10_MetricsPointInTime ==
    /\ \A i, j \in 1..6 :
          (mpc = ReadOrder[i] /\ i <= j /\ j <= 5) => mhist.read[ReadOrder[j]] = <<>>
    /\ MetricsReturned =>
          /\ resp.body.clients = Len(mhist.read.client)
          /\ resp.body.projects = Len(mhist.read.project)
          /\ resp.body.total_hours =
                 Total(mhist.read.timelog, "hours", Len(mhist.read.timelog))
          /\ resp.body.invoice_total =
                 Total(mhist.read.invoice, "amount", Len(mhist.read.invoice))
          /\ resp.body.payment_total =
                 Total(mhist.read.payment, "amount", Len(mhist.read.payment))
          /\ resp.body.outstanding = resp.body.invoice_total - resp.body.payment_total
          /\ \A k \in Kinds :
                IsPrefix(mhist.start[k], mhist.read[k]) /\ IsPrefix(mhist.read[k], mhist.ret[k])

\* C10 witness: a metrics call that counted an invoice created after it
\* started and missed a client created after the client read.
C10_Witness ==
    /\ MetricsReturned
    /\ Len(mhist.read.invoice) > Len(mhist.start.invoice)
    /\ Len(mhist.ret.client) > Len(mhist.read.client)

====
